---- MODULE Spec2Model ----
(***************************************************************************)
(* SafeSQLTool._run of 03_guardrailed_agent.py / 04_complex_queries.py     *)
(* (the two files hold the same method, line for line).                    *)
(*                                                                         *)
(* A text is a sequence of code points, so that strip, rstrip and the      *)
(* regular expressions are computed character by character.                *)
(***************************************************************************)
EXTENDS Integers, Sequences, FiniteSets, TLC

VARIABLES
    pc,          \* per invocation: "idle", "admit", "connect", "exec", "fetch", "exit",
                 \* and "done" once _run has ended, by a return or by an exception
    sql,         \* per invocation: the argument sql
    s,           \* per invocation: the local s
    result,      \* per invocation: the local result, what exec_driver_sql gave back
    pending,     \* per invocation: the dict of line 113 on its way out of the with block
    returned,    \* per invocation: the value _run returned
    fault,       \* per invocation: the exception raised inside the try block, "" when none
    raised,      \* per invocation: the exception that left _run, "" when none
    holds,       \* per invocation: whether conn is checked out
    connects,    \* per invocation: calls of engine.connect() so far
    execs,       \* per invocation: calls of conn.exec_driver_sql() so far
    checkedOut,  \* engine: connections checked out
    executed,    \* database: every text exec_driver_sql was given
    calls        \* invocations of _run so far

vars == <<pc, sql, s, returned, pending, result, fault, raised, holds, connects,
          execs, checkedOut, executed, calls>>

(***************************************************************************)
(* Bounds of the model.                                                    *)
(***************************************************************************)
MaxAtoms == 3
NumThreads == 2
MaxCalls == 3

(***************************************************************************)
(* Characters are Unicode code points, as in a Python str.  Text(<<..>>)   *)
(* spells a text of printable ASCII characters.                            *)
(***************************************************************************)
\* the characters U+0020 .. U+005F and U+0061 .. U+007E, in order
AsciiLow ==
    << " ", "!", "\"", "#", "$", "%", "&", "'", "(", ")", "*", "+", ",", "-",
       ".", "/", "0", "1", "2", "3", "4", "5", "6", "7", "8", "9", ":", ";",
       "<", "=", ">", "?", "@", "A", "B", "C", "D", "E", "F", "G", "H", "I",
       "J", "K", "L", "M", "N", "O", "P", "Q", "R", "S", "T", "U", "V", "W",
       "X", "Y", "Z", "[", "\\", "]", "^", "_" >>
AsciiHigh ==
    << "a", "b", "c", "d", "e", "f", "g", "h", "i", "j", "k", "l", "m", "n",
       "o", "p", "q", "r", "s", "t", "u", "v", "w", "x", "y", "z", "{", "|",
       "}", "~" >>

\* ord(ch) of a character of the two tables
Ord(ch) ==
    IF \E i \in 1..Len(AsciiLow) : AsciiLow[i] = ch
    THEN 31 + (CHOOSE i \in 1..Len(AsciiLow) : AsciiLow[i] = ch)
    ELSE 96 + (CHOOSE i \in 1..Len(AsciiHigh) : AsciiHigh[i] = ch)
Text(lit) == [i \in 1..Len(lit) |-> Ord(lit[i])]

Semicolon == Ord(";")

InRanges(c, ranges) == \E r \in ranges : r[1] <= c /\ c <= r[2]

(***************************************************************************)
(* The character classes of str.strip() and of the re module on a str      *)
(* pattern (no re.ASCII flag): Unicode 14.0.0, as inclusive code point     *)
(* ranges.                                                                 *)
(***************************************************************************)
\* \s, and what str.strip() removes: 29 code points
SpaceRanges ==
    { <<9,13>>, <<28,32>>, <<133,133>>, <<160,160>>, <<5760,5760>>,
      <<8192,8202>>, <<8232,8233>>, <<8239,8239>>, <<8287,8287>>,
      <<12288,12288>> }

\* \d: the 660 decimal digits
DigitRanges ==
    { <<48,57>>, <<1632,1641>>, <<1776,1785>>, <<1984,1993>>, <<2406,2415>>,
      <<2534,2543>>, <<2662,2671>>, <<2790,2799>>, <<2918,2927>>,
      <<3046,3055>>, <<3174,3183>>, <<3302,3311>>, <<3430,3439>>,
      <<3558,3567>>, <<3664,3673>>, <<3792,3801>>, <<3872,3881>>,
      <<4160,4169>>, <<4240,4249>>, <<6112,6121>>, <<6160,6169>>,
      <<6470,6479>>, <<6608,6617>>, <<6784,6793>>, <<6800,6809>>,
      <<6992,7001>>, <<7088,7097>>, <<7232,7241>>, <<7248,7257>>,
      <<42528,42537>>, <<43216,43225>>, <<43264,43273>>, <<43472,43481>>,
      <<43504,43513>>, <<43600,43609>>, <<44016,44025>>, <<65296,65305>>,
      <<66720,66729>>, <<68912,68921>>, <<69734,69743>>, <<69872,69881>>,
      <<69942,69951>>, <<70096,70105>>, <<70384,70393>>, <<70736,70745>>,
      <<70864,70873>>, <<71248,71257>>, <<71360,71369>>, <<71472,71481>>,
      <<71904,71913>>, <<72016,72025>>, <<72784,72793>>, <<73040,73049>>,
      <<73120,73129>>, <<92768,92777>>, <<92864,92873>>, <<93008,93017>>,
      <<120782,120831>>, <<123200,123209>>, <<123632,123641>>,
      <<125264,125273>>, <<130032,130041>> }

\* \w: the 133548 alphanumeric code points and "_"
WordRanges ==
    { <<48,57>>, <<65,90>>, <<95,95>>, <<97,122>>, <<170,170>>, <<178,179>>,
      <<181,181>>, <<185,186>>, <<188,190>>, <<192,214>>, <<216,246>>,
      <<248,705>>, <<710,721>>, <<736,740>>, <<748,748>>, <<750,750>>,
      <<880,884>>, <<886,887>>, <<890,893>>, <<895,895>>, <<902,902>>,
      <<904,906>>, <<908,908>>, <<910,929>>, <<931,1013>>, <<1015,1153>>,
      <<1162,1327>>, <<1329,1366>>, <<1369,1369>>, <<1376,1416>>,
      <<1488,1514>>, <<1519,1522>>, <<1568,1610>>, <<1632,1641>>,
      <<1646,1647>>, <<1649,1747>>, <<1749,1749>>, <<1765,1766>>,
      <<1774,1788>>, <<1791,1791>>, <<1808,1808>>, <<1810,1839>>,
      <<1869,1957>>, <<1969,1969>>, <<1984,2026>>, <<2036,2037>>,
      <<2042,2042>>, <<2048,2069>>, <<2074,2074>>, <<2084,2084>>,
      <<2088,2088>>, <<2112,2136>>, <<2144,2154>>, <<2160,2183>>,
      <<2185,2190>>, <<2208,2249>>, <<2308,2361>>, <<2365,2365>>,
      <<2384,2384>>, <<2392,2401>>, <<2406,2415>>, <<2417,2432>>,
      <<2437,2444>>, <<2447,2448>>, <<2451,2472>>, <<2474,2480>>,
      <<2482,2482>>, <<2486,2489>>, <<2493,2493>>, <<2510,2510>>,
      <<2524,2525>>, <<2527,2529>>, <<2534,2545>>, <<2548,2553>>,
      <<2556,2556>>, <<2565,2570>>, <<2575,2576>>, <<2579,2600>>,
      <<2602,2608>>, <<2610,2611>>, <<2613,2614>>, <<2616,2617>>,
      <<2649,2652>>, <<2654,2654>>, <<2662,2671>>, <<2674,2676>>,
      <<2693,2701>>, <<2703,2705>>, <<2707,2728>>, <<2730,2736>>,
      <<2738,2739>>, <<2741,2745>>, <<2749,2749>>, <<2768,2768>>,
      <<2784,2785>>, <<2790,2799>>, <<2809,2809>>, <<2821,2828>>,
      <<2831,2832>>, <<2835,2856>>, <<2858,2864>>, <<2866,2867>>,
      <<2869,2873>>, <<2877,2877>>, <<2908,2909>>, <<2911,2913>>,
      <<2918,2927>>, <<2929,2935>>, <<2947,2947>>, <<2949,2954>>,
      <<2958,2960>>, <<2962,2965>>, <<2969,2970>>, <<2972,2972>>,
      <<2974,2975>>, <<2979,2980>>, <<2984,2986>>, <<2990,3001>>,
      <<3024,3024>>, <<3046,3058>>, <<3077,3084>>, <<3086,3088>>,
      <<3090,3112>>, <<3114,3129>>, <<3133,3133>>, <<3160,3162>>,
      <<3165,3165>>, <<3168,3169>>, <<3174,3183>>, <<3192,3198>>,
      <<3200,3200>>, <<3205,3212>>, <<3214,3216>>, <<3218,3240>>,
      <<3242,3251>>, <<3253,3257>>, <<3261,3261>>, <<3293,3294>>,
      <<3296,3297>>, <<3302,3311>>, <<3313,3314>>, <<3332,3340>>,
      <<3342,3344>>, <<3346,3386>>, <<3389,3389>>, <<3406,3406>>,
      <<3412,3414>>, <<3416,3425>>, <<3430,3448>>, <<3450,3455>>,
      <<3461,3478>>, <<3482,3505>>, <<3507,3515>>, <<3517,3517>>,
      <<3520,3526>>, <<3558,3567>>, <<3585,3632>>, <<3634,3635>>,
      <<3648,3654>>, <<3664,3673>>, <<3713,3714>>, <<3716,3716>>,
      <<3718,3722>>, <<3724,3747>>, <<3749,3749>>, <<3751,3760>>,
      <<3762,3763>>, <<3773,3773>>, <<3776,3780>>, <<3782,3782>>,
      <<3792,3801>>, <<3804,3807>>, <<3840,3840>>, <<3872,3891>>,
      <<3904,3911>>, <<3913,3948>>, <<3976,3980>>, <<4096,4138>>,
      <<4159,4169>>, <<4176,4181>>, <<4186,4189>>, <<4193,4193>>,
      <<4197,4198>>, <<4206,4208>>, <<4213,4225>>, <<4238,4238>>,
      <<4240,4249>>, <<4256,4293>>, <<4295,4295>>, <<4301,4301>>,
      <<4304,4346>>, <<4348,4680>>, <<4682,4685>>, <<4688,4694>>,
      <<4696,4696>>, <<4698,4701>>, <<4704,4744>>, <<4746,4749>>,
      <<4752,4784>>, <<4786,4789>>, <<4792,4798>>, <<4800,4800>>,
      <<4802,4805>>, <<4808,4822>>, <<4824,4880>>, <<4882,4885>>,
      <<4888,4954>>, <<4969,4988>>, <<4992,5007>>, <<5024,5109>>,
      <<5112,5117>>, <<5121,5740>>, <<5743,5759>>, <<5761,5786>>,
      <<5792,5866>>, <<5870,5880>>, <<5888,5905>>, <<5919,5937>>,
      <<5952,5969>>, <<5984,5996>>, <<5998,6000>>, <<6016,6067>>,
      <<6103,6103>>, <<6108,6108>>, <<6112,6121>>, <<6128,6137>>,
      <<6160,6169>>, <<6176,6264>>, <<6272,6276>>, <<6279,6312>>,
      <<6314,6314>>, <<6320,6389>>, <<6400,6430>>, <<6470,6509>>,
      <<6512,6516>>, <<6528,6571>>, <<6576,6601>>, <<6608,6618>>,
      <<6656,6678>>, <<6688,6740>>, <<6784,6793>>, <<6800,6809>>,
      <<6823,6823>>, <<6917,6963>>, <<6981,6988>>, <<6992,7001>>,
      <<7043,7072>>, <<7086,7141>>, <<7168,7203>>, <<7232,7241>>,
      <<7245,7293>>, <<7296,7304>>, <<7312,7354>>, <<7357,7359>>,
      <<7401,7404>>, <<7406,7411>>, <<7413,7414>>, <<7418,7418>>,
      <<7424,7615>>, <<7680,7957>>, <<7960,7965>>, <<7968,8005>>,
      <<8008,8013>>, <<8016,8023>>, <<8025,8025>>, <<8027,8027>>,
      <<8029,8029>>, <<8031,8061>>, <<8064,8116>>, <<8118,8124>>,
      <<8126,8126>>, <<8130,8132>>, <<8134,8140>>, <<8144,8147>>,
      <<8150,8155>>, <<8160,8172>>, <<8178,8180>>, <<8182,8188>>,
      <<8304,8305>>, <<8308,8313>>, <<8319,8329>>, <<8336,8348>>,
      <<8450,8450>>, <<8455,8455>>, <<8458,8467>>, <<8469,8469>>,
      <<8473,8477>>, <<8484,8484>>, <<8486,8486>>, <<8488,8488>>,
      <<8490,8493>>, <<8495,8505>>, <<8508,8511>>, <<8517,8521>>,
      <<8526,8526>>, <<8528,8585>>, <<9312,9371>>, <<9450,9471>>,
      <<10102,10131>>, <<11264,11492>>, <<11499,11502>>, <<11506,11507>>,
      <<11517,11517>>, <<11520,11557>>, <<11559,11559>>, <<11565,11565>>,
      <<11568,11623>>, <<11631,11631>>, <<11648,11670>>, <<11680,11686>>,
      <<11688,11694>>, <<11696,11702>>, <<11704,11710>>, <<11712,11718>>,
      <<11720,11726>>, <<11728,11734>>, <<11736,11742>>, <<11823,11823>>,
      <<12293,12295>>, <<12321,12329>>, <<12337,12341>>, <<12344,12348>>,
      <<12353,12438>>, <<12445,12447>>, <<12449,12538>>, <<12540,12543>>,
      <<12549,12591>>, <<12593,12686>>, <<12690,12693>>, <<12704,12735>>,
      <<12784,12799>>, <<12832,12841>>, <<12872,12879>>, <<12881,12895>>,
      <<12928,12937>>, <<12977,12991>>, <<13312,19903>>, <<19968,42124>>,
      <<42192,42237>>, <<42240,42508>>, <<42512,42539>>, <<42560,42606>>,
      <<42623,42653>>, <<42656,42735>>, <<42775,42783>>, <<42786,42888>>,
      <<42891,42954>>, <<42960,42961>>, <<42963,42963>>, <<42965,42969>>,
      <<42994,43009>>, <<43011,43013>>, <<43015,43018>>, <<43020,43042>>,
      <<43056,43061>>, <<43072,43123>>, <<43138,43187>>, <<43216,43225>>,
      <<43250,43255>>, <<43259,43259>>, <<43261,43262>>, <<43264,43301>>,
      <<43312,43334>>, <<43360,43388>>, <<43396,43442>>, <<43471,43481>>,
      <<43488,43492>>, <<43494,43518>>, <<43520,43560>>, <<43584,43586>>,
      <<43588,43595>>, <<43600,43609>>, <<43616,43638>>, <<43642,43642>>,
      <<43646,43695>>, <<43697,43697>>, <<43701,43702>>, <<43705,43709>>,
      <<43712,43712>>, <<43714,43714>>, <<43739,43741>>, <<43744,43754>>,
      <<43762,43764>>, <<43777,43782>>, <<43785,43790>>, <<43793,43798>>,
      <<43808,43814>>, <<43816,43822>>, <<43824,43866>>, <<43868,43881>>,
      <<43888,44002>>, <<44016,44025>>, <<44032,55203>>, <<55216,55238>>,
      <<55243,55291>>, <<63744,64109>>, <<64112,64217>>, <<64256,64262>>,
      <<64275,64279>>, <<64285,64285>>, <<64287,64296>>, <<64298,64310>>,
      <<64312,64316>>, <<64318,64318>>, <<64320,64321>>, <<64323,64324>>,
      <<64326,64433>>, <<64467,64829>>, <<64848,64911>>, <<64914,64967>>,
      <<65008,65019>>, <<65136,65140>>, <<65142,65276>>, <<65296,65305>>,
      <<65313,65338>>, <<65345,65370>>, <<65382,65470>>, <<65474,65479>>,
      <<65482,65487>>, <<65490,65495>>, <<65498,65500>>, <<65536,65547>>,
      <<65549,65574>>, <<65576,65594>>, <<65596,65597>>, <<65599,65613>>,
      <<65616,65629>>, <<65664,65786>>, <<65799,65843>>, <<65856,65912>>,
      <<65930,65931>>, <<66176,66204>>, <<66208,66256>>, <<66273,66299>>,
      <<66304,66339>>, <<66349,66378>>, <<66384,66421>>, <<66432,66461>>,
      <<66464,66499>>, <<66504,66511>>, <<66513,66517>>, <<66560,66717>>,
      <<66720,66729>>, <<66736,66771>>, <<66776,66811>>, <<66816,66855>>,
      <<66864,66915>>, <<66928,66938>>, <<66940,66954>>, <<66956,66962>>,
      <<66964,66965>>, <<66967,66977>>, <<66979,66993>>, <<66995,67001>>,
      <<67003,67004>>, <<67072,67382>>, <<67392,67413>>, <<67424,67431>>,
      <<67456,67461>>, <<67463,67504>>, <<67506,67514>>, <<67584,67589>>,
      <<67592,67592>>, <<67594,67637>>, <<67639,67640>>, <<67644,67644>>,
      <<67647,67669>>, <<67672,67702>>, <<67705,67742>>, <<67751,67759>>,
      <<67808,67826>>, <<67828,67829>>, <<67835,67867>>, <<67872,67897>>,
      <<67968,68023>>, <<68028,68047>>, <<68050,68096>>, <<68112,68115>>,
      <<68117,68119>>, <<68121,68149>>, <<68160,68168>>, <<68192,68222>>,
      <<68224,68255>>, <<68288,68295>>, <<68297,68324>>, <<68331,68335>>,
      <<68352,68405>>, <<68416,68437>>, <<68440,68466>>, <<68472,68497>>,
      <<68521,68527>>, <<68608,68680>>, <<68736,68786>>, <<68800,68850>>,
      <<68858,68899>>, <<68912,68921>>, <<69216,69246>>, <<69248,69289>>,
      <<69296,69297>>, <<69376,69415>>, <<69424,69445>>, <<69457,69460>>,
      <<69488,69505>>, <<69552,69579>>, <<69600,69622>>, <<69635,69687>>,
      <<69714,69743>>, <<69745,69746>>, <<69749,69749>>, <<69763,69807>>,
      <<69840,69864>>, <<69872,69881>>, <<69891,69926>>, <<69942,69951>>,
      <<69956,69956>>, <<69959,69959>>, <<69968,70002>>, <<70006,70006>>,
      <<70019,70066>>, <<70081,70084>>, <<70096,70106>>, <<70108,70108>>,
      <<70113,70132>>, <<70144,70161>>, <<70163,70187>>, <<70272,70278>>,
      <<70280,70280>>, <<70282,70285>>, <<70287,70301>>, <<70303,70312>>,
      <<70320,70366>>, <<70384,70393>>, <<70405,70412>>, <<70415,70416>>,
      <<70419,70440>>, <<70442,70448>>, <<70450,70451>>, <<70453,70457>>,
      <<70461,70461>>, <<70480,70480>>, <<70493,70497>>, <<70656,70708>>,
      <<70727,70730>>, <<70736,70745>>, <<70751,70753>>, <<70784,70831>>,
      <<70852,70853>>, <<70855,70855>>, <<70864,70873>>, <<71040,71086>>,
      <<71128,71131>>, <<71168,71215>>, <<71236,71236>>, <<71248,71257>>,
      <<71296,71338>>, <<71352,71352>>, <<71360,71369>>, <<71424,71450>>,
      <<71472,71483>>, <<71488,71494>>, <<71680,71723>>, <<71840,71922>>,
      <<71935,71942>>, <<71945,71945>>, <<71948,71955>>, <<71957,71958>>,
      <<71960,71983>>, <<71999,71999>>, <<72001,72001>>, <<72016,72025>>,
      <<72096,72103>>, <<72106,72144>>, <<72161,72161>>, <<72163,72163>>,
      <<72192,72192>>, <<72203,72242>>, <<72250,72250>>, <<72272,72272>>,
      <<72284,72329>>, <<72349,72349>>, <<72368,72440>>, <<72704,72712>>,
      <<72714,72750>>, <<72768,72768>>, <<72784,72812>>, <<72818,72847>>,
      <<72960,72966>>, <<72968,72969>>, <<72971,73008>>, <<73030,73030>>,
      <<73040,73049>>, <<73056,73061>>, <<73063,73064>>, <<73066,73097>>,
      <<73112,73112>>, <<73120,73129>>, <<73440,73458>>, <<73648,73648>>,
      <<73664,73684>>, <<73728,74649>>, <<74752,74862>>, <<74880,75075>>,
      <<77712,77808>>, <<77824,78894>>, <<82944,83526>>, <<92160,92728>>,
      <<92736,92766>>, <<92768,92777>>, <<92784,92862>>, <<92864,92873>>,
      <<92880,92909>>, <<92928,92975>>, <<92992,92995>>, <<93008,93017>>,
      <<93019,93025>>, <<93027,93047>>, <<93053,93071>>, <<93760,93846>>,
      <<93952,94026>>, <<94032,94032>>, <<94099,94111>>, <<94176,94177>>,
      <<94179,94179>>, <<94208,100343>>, <<100352,101589>>,
      <<101632,101640>>, <<110576,110579>>, <<110581,110587>>,
      <<110589,110590>>, <<110592,110882>>, <<110928,110930>>,
      <<110948,110951>>, <<110960,111355>>, <<113664,113770>>,
      <<113776,113788>>, <<113792,113800>>, <<113808,113817>>,
      <<119520,119539>>, <<119648,119672>>, <<119808,119892>>,
      <<119894,119964>>, <<119966,119967>>, <<119970,119970>>,
      <<119973,119974>>, <<119977,119980>>, <<119982,119993>>,
      <<119995,119995>>, <<119997,120003>>, <<120005,120069>>,
      <<120071,120074>>, <<120077,120084>>, <<120086,120092>>,
      <<120094,120121>>, <<120123,120126>>, <<120128,120132>>,
      <<120134,120134>>, <<120138,120144>>, <<120146,120485>>,
      <<120488,120512>>, <<120514,120538>>, <<120540,120570>>,
      <<120572,120596>>, <<120598,120628>>, <<120630,120654>>,
      <<120656,120686>>, <<120688,120712>>, <<120714,120744>>,
      <<120746,120770>>, <<120772,120779>>, <<120782,120831>>,
      <<122624,122654>>, <<123136,123180>>, <<123191,123197>>,
      <<123200,123209>>, <<123214,123214>>, <<123536,123565>>,
      <<123584,123627>>, <<123632,123641>>, <<124896,124902>>,
      <<124904,124907>>, <<124909,124910>>, <<124912,124926>>,
      <<124928,125124>>, <<125127,125135>>, <<125184,125251>>,
      <<125259,125259>>, <<125264,125273>>, <<126065,126123>>,
      <<126125,126127>>, <<126129,126132>>, <<126209,126253>>,
      <<126255,126269>>, <<126464,126467>>, <<126469,126495>>,
      <<126497,126498>>, <<126500,126500>>, <<126503,126503>>,
      <<126505,126514>>, <<126516,126519>>, <<126521,126521>>,
      <<126523,126523>>, <<126530,126530>>, <<126535,126535>>,
      <<126537,126537>>, <<126539,126539>>, <<126541,126543>>,
      <<126545,126546>>, <<126548,126548>>, <<126551,126551>>,
      <<126553,126553>>, <<126555,126555>>, <<126557,126557>>,
      <<126559,126559>>, <<126561,126562>>, <<126564,126564>>,
      <<126567,126570>>, <<126572,126578>>, <<126580,126583>>,
      <<126585,126588>>, <<126590,126590>>, <<126592,126601>>,
      <<126603,126619>>, <<126625,126627>>, <<126629,126633>>,
      <<126635,126651>>, <<127232,127244>>, <<130032,130041>>,
      <<131072,173791>>, <<173824,177976>>, <<177984,178205>>,
      <<178208,183969>>, <<183984,191456>>, <<194560,195101>>,
      <<196608,201546>> }

AsciiWordRanges == {r \in WordRanges : r[2] < 128}

\* \w
IsWordChar(c) ==
    IF c < 128 THEN InRanges(c, AsciiWordRanges) ELSE InRanges(c, WordRanges)
\* \s, and the characters str.strip() removes
IsSpace(c) == InRanges(c, SpaceRanges)
\* \d
IsDigit(c) == InRanges(c, DigitRanges)

\* re.I against the ASCII characters of the patterns: a letter matches its
\* other case, and besides U+017F (long s) matches s, U+0130 and U+0131
\* (dotted I, dotless i) match i, U+212A (Kelvin sign) matches k.
\* FoldChar(c) is the lower-case ASCII letter c matches, or c when none.
FoldChar(c) ==
    IF 65 <= c /\ c <= 90 THEN c + 32
    ELSE IF c = 383 THEN 115
    ELSE IF c = 304 \/ c = 305 THEN 105
    ELSE IF c = 8490 THEN 107
    ELSE c

SetMin(S) == CHOOSE x \in S : \A y \in S : x <= y
SetMax(S) == CHOOSE x \in S : \A y \in S : x >= y

(***************************************************************************)
(* sql.strip().rstrip(";")                                                 *)
(***************************************************************************)
\* str.strip(): leading and trailing whitespace removed
Strip(t) ==
    LET keep == {i \in 1..Len(t) : ~IsSpace(t[i])}
    IN  IF keep = {} THEN <<>> ELSE SubSeq(t, SetMin(keep), SetMax(keep))

\* A plausible slip: one trailing character removed at most.
RStripOne(t, chars) ==
    IF Len(t) > 0 /\ t[Len(t)] \in chars THEN SubSeq(t, 1, Len(t) - 1) ELSE t

\* str.rstrip(chars): every trailing character of chars removed
RStrip(t, chars) ==
    LET keep == {i \in 1..Len(t) : t[i] \notin chars}
    IN  IF keep = {} THEN <<>> ELSE SubSeq(t, 1, SetMax(keep))

Normalize(q) == RStrip(Strip(q), {Semicolon})

(***************************************************************************)
(* Regular expressions.                                                    *)
(***************************************************************************)
\* \b at position p (between t[p-1] and t[p]); outside the text counts as \W
AtWordBoundary(t, p) ==
    LET left  == p > 1 /\ p - 1 <= Len(t) /\ IsWordChar(t[p - 1])
        right == p >= 1 /\ p <= Len(t) /\ IsWordChar(t[p])
    IN  left # right

\* the literal lit at position i, under re.I
MatchesAtI(t, i, lit) ==
    /\ i >= 1
    /\ i + Len(lit) - 1 <= Len(t)
    /\ \A k \in 1..Len(lit) : FoldChar(t[i + k - 1]) = FoldChar(lit[k])

\* all of t[a..b] satisfies the class (a run of b-a+1 >= 1 characters)
SpaceRun(t, a, b) == a <= b /\ b <= Len(t) /\ \A k \in a..b : IsSpace(t[k])
DigitRun(t, a, b) == a <= b /\ b <= Len(t) /\ \A k \in a..b : IsDigit(t[k])

WriteKeywords ==
    { Text(<<"I","N","S","E","R","T">>), Text(<<"U","P","D","A","T","E">>),
      Text(<<"D","E","L","E","T","E">>), Text(<<"D","R","O","P">>),
      Text(<<"T","R","U","N","C","A","T","E">>), Text(<<"A","L","T","E","R">>),
      Text(<<"C","R","E","A","T","E">>), Text(<<"R","E","P","L","A","C","E">>) }

\* re.search(r"\b(INSERT|UPDATE|DELETE|DROP|TRUNCATE|ALTER|CREATE|REPLACE)\b", s, re.I)
WritePattern(t) ==
    \E kw \in WriteKeywords : \E i \in 1..Len(t) :
        /\ MatchesAtI(t, i, kw)
        /\ AtWordBoundary(t, i)
        /\ AtWordBoundary(t, i + Len(kw))

\* A plausible slip: s.endswith(";") in place of ";" in s.
TerminatorAtEnd(t) == Len(t) > 0 /\ t[Len(t)] = Semicolon

\* ";" in s
HasTerminator(t) == \E i \in 1..Len(t) : t[i] = Semicolon

SelectWord == Text(<<"s","e","l","e","c","t">>)

\* re.match(r"(?is)^\s*select\b", s)
SelectPattern(t) ==
    \E j \in 0..Len(t) :
        /\ \A k \in 1..j : IsSpace(t[k])
        /\ MatchesAtI(t, j + 1, SelectWord)
        /\ AtWordBoundary(t, j + 1 + Len(SelectWord))

LimitWord == Text(<<"l","i","m","i","t">>)

\* re.search(r"\blimit\s+\d+\b", s, re.I)
LimitPattern(t) ==
    \E i \in 1..Len(t) :
        /\ MatchesAtI(t, i, LimitWord)
        /\ AtWordBoundary(t, i)
        /\ \E a \in (i + Len(LimitWord))..Len(t) : \E b \in (a + 1)..Len(t) :
              /\ SpaceRun(t, i + Len(LimitWord), a)
              /\ DigitRun(t, a + 1, b)
              /\ AtWordBoundary(t, b + 1)

AggregateCalls ==
    { Text(<<"c","o","u","n","t","(">>), Text(<<"s","u","m","(">>), Text(<<"a","v","g","(">>),
      Text(<<"m","a","x","(">>), Text(<<"m","i","n","(">>) }
GroupWord == Text(<<"g","r","o","u","p">>)
ByWord == Text(<<"b","y">>)

\* \bgroup\s+by\b
GroupByPattern(t) ==
    \E i \in 1..Len(t) :
        /\ MatchesAtI(t, i, GroupWord)
        /\ AtWordBoundary(t, i)
        /\ \E a \in (i + Len(GroupWord))..Len(t) :
              /\ SpaceRun(t, i + Len(GroupWord), a)
              /\ MatchesAtI(t, a + 1, ByWord)
              /\ AtWordBoundary(t, a + 1 + Len(ByWord))

\* re.search(r"\bcount\(|\bgroup\s+by\b|\bsum\(|\bavg\(|\bmax\(|\bmin\(", s, re.I)
AggregatePattern(t) ==
    \/ \E f \in AggregateCalls : \E i \in 1..Len(t) :
          MatchesAtI(t, i, f) /\ AtWordBoundary(t, i)
    \/ GroupByPattern(t)

\* s += " LIMIT 200"
LimitSuffix == Text(<<" ","L","I","M","I","T"," ","2","0","0">>)

ErrWrite  == "ERROR: write operations are not allowed."
ErrMulti  == "ERROR: multiple statements are not allowed."
ErrSelect == "ERROR: only SELECT statements are allowed."
Rejections == {ErrWrite, ErrMulti, ErrSelect}

(***************************************************************************)
(* Lines 94-106 of _run: the value of the local s and the rejection        *)
(* returned, "" when the text goes on to the try block.                    *)
(***************************************************************************)
Validate(q) ==
    LET n == Normalize(q)
    IN  IF WritePattern(n) THEN [s |-> n, error |-> ErrWrite]
        ELSE IF HasTerminator(n) THEN [s |-> n, error |-> ErrMulti]
        ELSE IF ~SelectPattern(n) THEN [s |-> n, error |-> ErrSelect]
        ELSE IF ~LimitPattern(n) /\ ~AggregatePattern(n)
             THEN [s |-> n \o LimitSuffix, error |-> ""]
             ELSE [s |-> n, error |-> ""]

(***************************************************************************)
(* Values _run returns: a str or a dict.                                   *)
(***************************************************************************)
NoValue == [kind |-> "none", text |-> "", columns |-> <<>>, rows |-> <<>>]
StrValue(x) == [kind |-> "str", text |-> x, columns |-> <<>>, rows |-> <<>>]
DictValue(c, r) == [kind |-> "dict", text |-> "", columns |-> c, rows |-> r]

\* f"ERROR: {e}"
ErrorText(e) == "ERROR: " \o e

\* What connect, exec_driver_sql and fetchall raise.  An instance of
\* Exception is written as its str(e); an exception that is not one (a
\* BaseException outside the Exception hierarchy) as its class.
Diagnostics == {"no such column: x", "database is locked"}
Interrupts == {"KeyboardInterrupt", "SystemExit", "GeneratorExit"}
Raisable == Diagnostics \cup Interrupts
NoFault == ""

\* what the database answers to a statement: column names and rows
NoResult == [columns |-> <<>>, rows |-> <<>>]
ResultSets == { [columns |-> <<"id">>, rows |-> <<>>],
                [columns |-> <<"id">>, rows |-> << <<1>>, <<2>> >>] }

(***************************************************************************)
(* The candidate texts: up to MaxAtoms fragments, concatenated.            *)
(***************************************************************************)
Atoms ==
    { Text(<<"S","E","L","E","C","T">>),
      Text(<<"s","e","l","e","c","t"," ">>),
      <<383>> \o Text(<<"e","l","e","c","t"," ">>),       \* U+017F long s
      <<160>>,                                           \* U+00A0 no-break space
      Text(<<";">>),
      Text(<<" ",";">>),
      <<233>>,                                           \* U+00E9 e acute
      Text(<<"1">>),
      <<1635>>,                                          \* U+0663 Arabic-Indic 3
      Text(<<"d","r","o","p">>),
      <<305>> \o Text(<<"n","s","e","r","t">>),           \* U+0131 dotless i
      Text(<<"l","i","m","i","t"," ">>),
      Text(<<"l">>) \o <<305>> \o Text(<<"m">>) \o <<305>> \o Text(<<"t"," ">>),
      Text(<<"c","o","u","n","t","(">>),
      \* GROUP, U+000B vertical tab, by
      Text(<<"G","R","O","U","P">>) \o <<11>> \o Text(<<"b","y">>) }

RECURSIVE Flatten(_)
Flatten(as) == IF as = <<>> THEN <<>> ELSE Head(as) \o Flatten(Tail(as))

Candidates ==
    UNION { {Flatten(as) : as \in [1..n -> Atoms]} : n \in 0..MaxAtoms }

\* the texts the concurrent invocations are called with
ConcInputs ==
    { Text(<<"s","e","l","e","c","t"," ","c","o","u","n","t","(","x",")"," ",";">>),
      Text(<<"d","r","o","p"," ","x">>) }

Main == 1
Threads == 1..NumThreads

(***************************************************************************)
(* Actions: one invocation of _run by thread t, step by step.              *)
(***************************************************************************)
\* _run(sql) is entered
Call(t) ==
    /\ pc[t] \in {"idle", "done"}
    /\ calls < MaxCalls
    /\ \E q \in ConcInputs : sql' = [sql EXCEPT ![t] = q]
    /\ pc' = [pc EXCEPT ![t] = "admit"]
    /\ s' = [s EXCEPT ![t] = <<>>]
    /\ returned' = [returned EXCEPT ![t] = NoValue]
    /\ pending' = [pending EXCEPT ![t] = NoValue]
    /\ result' = [result EXCEPT ![t] = NoResult]
    /\ fault' = [fault EXCEPT ![t] = NoFault]
    /\ raised' = [raised EXCEPT ![t] = NoFault]
    /\ connects' = [connects EXCEPT ![t] = 0]
    /\ execs' = [execs EXCEPT ![t] = 0]
    /\ calls' = calls + 1
    /\ UNCHANGED <<holds, checkedOut, executed>>

\* A plausible slip: the return of line 103 forgotten, so that a text failing
\* the SELECT test falls through to the try block.
RunAdmitFallThrough(t) ==
    /\ pc[t] = "admit"
    /\ LET v == Validate(sql[t])
       IN  /\ s' = [s EXCEPT ![t] = v.s]
           /\ IF v.error \in {ErrWrite, ErrMulti}
              THEN /\ returned' = [returned EXCEPT ![t] = StrValue(v.error)]
                   /\ pc' = [pc EXCEPT ![t] = "done"]
              ELSE /\ returned' = returned
                   /\ pc' = [pc EXCEPT ![t] = "connect"]
    /\ UNCHANGED <<sql, pending, result, fault, raised, holds, connects,
                   execs, checkedOut, executed, calls>>

\* lines 94-106: normalisation, the three rules, the LIMIT rewrite
RunAdmit(t) ==
    /\ pc[t] = "admit"
    /\ LET v == Validate(sql[t])
       IN  /\ s' = [s EXCEPT ![t] = v.s]
           /\ IF v.error # ""
              THEN /\ returned' = [returned EXCEPT ![t] = StrValue(v.error)]
                   /\ pc' = [pc EXCEPT ![t] = "done"]
              ELSE /\ returned' = returned
                   /\ pc' = [pc EXCEPT ![t] = "connect"]
    /\ UNCHANGED <<sql, pending, result, fault, raised, holds, connects,
                   execs, checkedOut, executed, calls>>

\* lines 114-115, reached with the exception e: an Exception is caught and
\* f"ERROR: {e}" returned; any other exception goes on out of _run, which
\* then returns no value
ExceptException(t, e) ==
    IF e \in Diagnostics
    THEN /\ returned' = [returned EXCEPT ![t] = StrValue(ErrorText(e))]
         /\ UNCHANGED raised
    ELSE /\ raised' = [raised EXCEPT ![t] = e]
         /\ UNCHANGED returned

\* line 109: engine.connect() inside the try block
RunConnect(t) ==
    /\ pc[t] = "connect"
    /\ connects' = [connects EXCEPT ![t] = @ + 1]
    /\ \/ /\ holds' = [holds EXCEPT ![t] = TRUE]
          /\ checkedOut' = checkedOut + 1
          /\ pc' = [pc EXCEPT ![t] = "exec"]
          /\ UNCHANGED <<fault, returned, raised>>
       \/ \E e \in Raisable :
            /\ fault' = [fault EXCEPT ![t] = e]
            /\ ExceptException(t, e)
            /\ pc' = [pc EXCEPT ![t] = "done"]
            /\ UNCHANGED <<holds, checkedOut>>
    /\ UNCHANGED <<sql, s, pending, result, execs, executed, calls>>

\* A plausible slip: the statement is tried again after a failure.
RunExecRetry(t) ==
    /\ pc[t] = "exec"
    /\ execs[t] < 2
    /\ executed' = executed \cup {s[t]}
    /\ execs' = [execs EXCEPT ![t] = @ + 1]
    /\ \/ \E rs \in ResultSets :
            /\ result' = [result EXCEPT ![t] = rs]
            /\ fault' = [fault EXCEPT ![t] = NoFault]
            /\ pc' = [pc EXCEPT ![t] = "fetch"]
       \/ \E e \in Raisable :
            /\ fault' = [fault EXCEPT ![t] = e]
            /\ pc' = [pc EXCEPT ![t] = IF execs[t] = 0 THEN "exec" ELSE "exit"]
            /\ UNCHANGED result
    /\ UNCHANGED <<sql, s, returned, pending, raised, holds, connects,
                   checkedOut, calls>>

\* line 110: conn.exec_driver_sql(s)
RunExec(t) ==
    /\ pc[t] = "exec"
    /\ executed' = executed \cup {s[t]}
    /\ execs' = [execs EXCEPT ![t] = @ + 1]
    /\ \/ \E rs \in ResultSets :
            /\ result' = [result EXCEPT ![t] = rs]
            /\ pc' = [pc EXCEPT ![t] = "fetch"]
            /\ UNCHANGED fault
       \/ \E e \in Raisable :
            /\ fault' = [fault EXCEPT ![t] = e]
            /\ pc' = [pc EXCEPT ![t] = "exit"]
            /\ UNCHANGED result
    /\ UNCHANGED <<sql, s, returned, pending, raised, holds, connects,
                   checkedOut, calls>>

\* lines 111-113: fetchall, keys, and the dict to return
RunFetch(t) ==
    /\ pc[t] = "fetch"
    /\ \/ /\ pending' = [pending EXCEPT ![t] =
                            DictValue(result[t].columns, result[t].rows)]
          /\ UNCHANGED fault
       \/ \E e \in Raisable :
            /\ fault' = [fault EXCEPT ![t] = e]
            /\ UNCHANGED pending
    /\ pc' = [pc EXCEPT ![t] = "exit"]
    /\ UNCHANGED <<sql, s, returned, raised, result, holds, connects, execs,
                   checkedOut, executed, calls>>

\* A plausible slip: conn.close() on the success path only, no with block.
RunExitLeak(t) ==
    /\ pc[t] = "exit"
    /\ IF fault[t] = NoFault
       THEN /\ holds' = [holds EXCEPT ![t] = FALSE]
            /\ checkedOut' = checkedOut - 1
            /\ returned' = [returned EXCEPT ![t] = pending[t]]
            /\ UNCHANGED raised
       ELSE /\ UNCHANGED <<holds, checkedOut>>
            /\ ExceptException(t, fault[t])
    /\ pc' = [pc EXCEPT ![t] = "done"]
    /\ UNCHANGED <<sql, s, pending, result, fault, connects, execs,
                   executed, calls>>

\* lines 109, 113-115: the with block is left, by the return of line 113 or
\* by the exception in flight, and the connection goes back; then _run
\* returns the dict, or the except clause gets the exception
RunExit(t) ==
    /\ pc[t] = "exit"
    /\ holds' = [holds EXCEPT ![t] = FALSE]
    /\ checkedOut' = checkedOut - 1
    /\ IF fault[t] = NoFault
       THEN /\ returned' = [returned EXCEPT ![t] = pending[t]]
            /\ UNCHANGED raised
       ELSE ExceptException(t, fault[t])
    /\ pc' = [pc EXCEPT ![t] = "done"]
    /\ UNCHANGED <<sql, s, pending, result, fault, connects, execs,
                   executed, calls>>

(***************************************************************************)
(* Spec: one invocation, on every candidate text.                          *)
(***************************************************************************)
Init ==
    /\ sql \in [{Main} -> Candidates]
    /\ pc = [t \in {Main} |-> "admit"]
    /\ s = [t \in {Main} |-> <<>>]
    /\ returned = [t \in {Main} |-> NoValue]
    /\ pending = [t \in {Main} |-> NoValue]
    /\ result = [t \in {Main} |-> NoResult]
    /\ fault = [t \in {Main} |-> NoFault]
    /\ raised = [t \in {Main} |-> NoFault]
    /\ holds = [t \in {Main} |-> FALSE]
    /\ connects = [t \in {Main} |-> 0]
    /\ execs = [t \in {Main} |-> 0]
    /\ checkedOut = 0
    /\ executed = {}
    /\ calls = 1

Next ==
    \/ RunAdmit(Main)
    \/ RunConnect(Main)
    \/ RunExec(Main)
    \/ RunFetch(Main)
    \/ RunExit(Main)

Spec == Init /\ [][Next]_vars

(***************************************************************************)
(* SpecConc: NumThreads threads, MaxCalls invocations in all, interleaved. *)
(***************************************************************************)
InitConc ==
    /\ sql = [t \in Threads |-> <<>>]
    /\ pc = [t \in Threads |-> "idle"]
    /\ s = [t \in Threads |-> <<>>]
    /\ returned = [t \in Threads |-> NoValue]
    /\ pending = [t \in Threads |-> NoValue]
    /\ result = [t \in Threads |-> NoResult]
    /\ fault = [t \in Threads |-> NoFault]
    /\ raised = [t \in Threads |-> NoFault]
    /\ holds = [t \in Threads |-> FALSE]
    /\ connects = [t \in Threads |-> 0]
    /\ execs = [t \in Threads |-> 0]
    /\ checkedOut = 0
    /\ executed = {}
    /\ calls = 0

NextConc ==
    \E t \in Threads :
        \/ Call(t)
        \/ RunAdmit(t)
        \/ RunConnect(t)
        \/ RunExec(t)
        \/ RunFetch(t)
        \/ RunExit(t)

SpecConc == InitConc /\ [][NextConc]_vars


(***************************************************************************)
(* The vocabulary of the properties, stated on words (maximal runs of      *)
(* identifier characters) rather than on regular expressions.  A keyword   *)
(* of SQL is spelled with the letters A-Z in either case, an integer with  *)
(* the digits 0-9.                                                         *)
(***************************************************************************)
AsciiLower(c) == IF 65 <= c /\ c <= 90 THEN c + 32 ELSE c
IsAsciiDigit(c) == 48 <= c /\ c <= 57
OpenParen == Ord("(")

\* the whole words of t, each as <<first, last>>: a word starts where an
\* identifier character follows none, and runs to the last one of its run
WordsOf(t) ==
    LET starts == {i \in 1..Len(t) :
                      IsWordChar(t[i]) /\ (i = 1 \/ ~IsWordChar(t[i - 1]))}
        ends   == {j \in 1..Len(t) :
                      IsWordChar(t[j]) /\ (j = Len(t) \/ ~IsWordChar(t[j + 1]))}
    IN  {<<i, SetMin({j \in ends : j >= i})>> : i \in starts}

\* the word w of t reads lit, in either case of the letters A-Z
WordReads(t, w, lit) ==
    /\ w[2] - w[1] + 1 = Len(lit)
    /\ \A k \in 1..Len(lit) : AsciiLower(t[w[1] + k - 1]) = AsciiLower(lit[k])

HasWriteWord(t) ==
    \E w \in WordsOf(t) : \E kw \in WriteKeywords : WordReads(t, w, kw)

\* the letters of a write keyword occur in t, as a word or inside one
HasWriteLetters(t) ==
    \E kw \in WriteKeywords : \E i \in 1..Len(t) :
        /\ i + Len(kw) - 1 <= Len(t)
        /\ \A k \in 1..Len(kw) : AsciiLower(t[i + k - 1]) = AsciiLower(kw[k])

KwSelect == Text(<<"S","E","L","E","C","T">>)
KwLimit == Text(<<"L","I","M","I","T">>)
KwGroup == Text(<<"G","R","O","U","P">>)
KwBy == Text(<<"B","Y">>)
AggregateNames ==
    { Text(<<"C","O","U","N","T">>), Text(<<"S","U","M">>),
      Text(<<"A","V","G">>), Text(<<"M","A","X">>), Text(<<"M","I","N">>) }
DefaultLimit == Text(<<" ","L","I","M","I","T"," ","2","0","0">>)

\* the first thing in t after whitespace is the word SELECT
StartsWithSelectWord(t) ==
    \E w \in WordsOf(t) :
        /\ WordReads(t, w, KwSelect)
        /\ \A k \in 1..(w[1] - 1) : IsSpace(t[k])

\* the number of ';' the whitespace-trimmed text ends in
TrailingTerminators(t) ==
    LET u == Strip(t)
    IN  Cardinality({i \in 1..Len(u) : \A k \in i..Len(u) : u[k] = Semicolon})

\* a ';' that something other than ';' and trailing whitespace follows
InteriorTerminator(t) ==
    \E i \in 1..Len(t) : \E j \in (i + 1)..Len(t) :
        /\ t[i] = Semicolon
        /\ t[j] # Semicolon
        /\ \E k \in j..Len(t) : ~IsSpace(t[k])

\* the word LIMIT, whitespace, then a word made of the digits 0-9
HasLimitClause(t) ==
    LET ws == WordsOf(t)
    IN  \E w \in ws : \E n \in ws :
        /\ WordReads(t, w, KwLimit)
        /\ n[1] > w[2] + 1
        /\ \A k \in (w[2] + 1)..(n[1] - 1) : IsSpace(t[k])
        /\ \A k \in n[1]..n[2] : IsAsciiDigit(t[k])

\* COUNT(, SUM(, AVG(, MAX(, MIN( as a call, or the words GROUP BY
HasAggregateConstruct(t) ==
    LET ws == WordsOf(t)
    IN  \/ \E w \in ws : \E f \in AggregateNames :
              /\ WordReads(t, w, f)
              /\ w[2] < Len(t)
              /\ t[w[2] + 1] = OpenParen
        \/ \E w \in ws : \E n \in ws :
              /\ WordReads(t, w, KwGroup)
              /\ WordReads(t, n, KwBy)
              /\ n[1] > w[2] + 1
              /\ \A k \in (w[2] + 1)..(n[1] - 1) : IsSpace(t[k])

Invocations == DOMAIN pc
\* lines 94-106 have run in invocation t
Decided(t) == pc[t] \notin {"idle", "admit"}
\* invocation t ended in one of the three rejection strings
Rejected(t) == returned[t].kind = "str" /\ returned[t].text \in Rejections
\* invocation t went on to the try block
Accepted(t) == Decided(t) /\ ~Rejected(t)

(***************************************************************************)
(* C1                                                                      *)
(***************************************************************************)
\* C1 as claimed: a decided invocation whose candidate holds one of the eight
\* write keywords as a whole word, in either letter case, returned the
\* write-operation rejection, whatever else the candidate holds; an
\* invocation whose candidate holds these keywords only inside longer
\* identifiers did not return it.
C1_WriteRejected ==
    \A t \in Invocations :
        Decided(t) =>
            LET rejected == returned[t] =
                    StrValue("ERROR: write operations are not allowed.")
            IN  /\ HasWriteWord(sql[t]) => rejected
                /\ (HasWriteLetters(sql[t]) /\ ~HasWriteWord(sql[t])) => ~rejected

(***************************************************************************)
(* C2                                                                      *)
(***************************************************************************)
\* C2: an invocation that ended in a rejection string never asked for a
\* connection, holds none, executed nothing and met no database failure; an
\* invocation that asked for a connection, executed a statement, met a
\* database failure or produced rows was called with a text that none of
\* the three rules of lines 96-103 rejects.
C2_DatabaseOnlyWhenAccepted ==
    \A t \in Invocations :
        /\ Rejected(t) =>
              /\ connects[t] = 0
              /\ execs[t] = 0
              /\ ~holds[t]
              /\ fault[t] = NoFault
        /\ (\/ connects[t] > 0
            \/ execs[t] > 0
            \/ holds[t]
            \/ fault[t] # NoFault
            \/ returned[t].kind = "dict"
            \/ pending[t].kind # "none") =>
              LET n == Normalize(sql[t])
              IN  ~WritePattern(n) /\ ~HasTerminator(n) /\ SelectPattern(n)

\* a rejected invocation that has returned, and a statement-free database
C2_Witness ==
    \E t \in Invocations :
        /\ pc[t] = "done"
        /\ returned[t].text = "ERROR: only SELECT statements are allowed."
        /\ connects[t] = 0
        /\ executed = {}

(***************************************************************************)
(* C3                                                                      *)
(***************************************************************************)
\* C3 as claimed: every candidate with a ';' followed by further text is
\* rejected for holding multiple statements.
C3_Original ==
    \A t \in Invocations :
        Decided(t) /\ InteriorTerminator(sql[t]) =>
            returned[t] = StrValue("ERROR: multiple statements are not allowed.")

\* C3, amended: every candidate with a ';' followed by further text is
\* rejected: for holding multiple statements, unless the write-operation
\* rule, which runs first, has rejected it.
C3_MultiRejected ==
    \A t \in Invocations :
        Decided(t) /\ InteriorTerminator(sql[t]) =>
            \/ returned[t] = StrValue("ERROR: multiple statements are not allowed.")
            \/ /\ returned[t] = StrValue("ERROR: write operations are not allowed.")
               /\ WritePattern(Normalize(sql[t]))

\* two SELECT-led clauses, rejected for multiple statements
C3_Witness ==
    \E t \in Invocations :
        /\ pc[t] = "done"
        /\ InteriorTerminator(sql[t])
        /\ StartsWithSelectWord(sql[t])
        /\ returned[t].text = "ERROR: multiple statements are not allowed."

(***************************************************************************)
(* C4                                                                      *)
(***************************************************************************)
\* C4 as claimed, the first matching rule winning: every candidate that does
\* not start with the keyword SELECT (case-insensitive, leading whitespace
\* ignored), unless the write-operation rule or the multiple-statement rule
\* has rejected it, is rejected as not being a SELECT.
C4_SelectOnly ==
    \A t \in Invocations :
        (/\ Decided(t)
         /\ ~StartsWithSelectWord(sql[t])
         /\ returned[t] # StrValue("ERROR: write operations are not allowed.")
         /\ returned[t] # StrValue("ERROR: multiple statements are not allowed.")) =>
            returned[t] = StrValue("ERROR: only SELECT statements are allowed.")

(***************************************************************************)
(* C5                                                                      *)
(***************************************************************************)
\* C5 as claimed: for an accepted candidate with normalized text n, the text
\* handed to execution is n followed by " LIMIT 200" once when n holds
\* neither a LIMIT <integer> clause nor an aggregate/grouping construct, and
\* n itself otherwise.
C5_LimitRewrite ==
    \A t \in Invocations :
        Accepted(t) =>
            LET n == Normalize(sql[t])
                f == IF HasLimitClause(n) \/ HasAggregateConstruct(n)
                     THEN n ELSE n \o DefaultLimit
            IN  /\ s[t] = f
                /\ execs[t] > 0 => f \in executed

(***************************************************************************)
(* C6                                                                      *)
(***************************************************************************)
\* C6 as claimed: admitting the final text of an accepted candidate again
\* accepts it and yields that very text.
C6_Idempotent ==
    \A t \in Invocations :
        Accepted(t) => Validate(s[t]) = [s |-> s[t], error |-> ""]

(***************************************************************************)
(* C7                                                                      *)
(***************************************************************************)
\* C7: an invocation that has ended, by returning a value or by an exception
\* leaving _run, holds no connection; the engine's count of checked-out
\* connections is the number of invocations inside the with block, and is
\* zero once every invocation has ended.
C7_ConnectionReleased ==
    /\ \A t \in Invocations : pc[t] \in {"idle", "done"} => ~holds[t]
    /\ checkedOut = Cardinality({t \in Invocations : holds[t]})
    /\ (\A t \in Invocations : pc[t] \in {"idle", "done"}) => checkedOut = 0

\* every invocation made, one of them returned rows, another was left by an
\* uncaught exception of its statement, and nobody holds a connection
C7_Witness ==
    /\ calls = MaxCalls
    /\ \A t \in Invocations : pc[t] = "done"
    /\ \E t \in Invocations :
          fault[t] \in Interrupts /\ execs[t] = 1 /\ raised[t] = fault[t]
    /\ \E t \in Invocations : returned[t].kind = "dict"
    /\ checkedOut = 0

(***************************************************************************)
(* C8                                                                      *)
(***************************************************************************)
\* C8 as claimed: an invocation asks for a connection and executes its
\* statement at most once; a failure happens to an accepted text only, after
\* it nothing is left but leaving the with block, no exception leaves _run,
\* and the value returned is the string "ERROR: <diagnostic>", never rows.
C8_Original ==
    \A t \in Invocations :
        /\ connects[t] <= 1
        /\ execs[t] <= 1
        /\ raised[t] = NoFault
        /\ fault[t] # NoFault =>
              /\ pc[t] \in {"exit", "done"}
              /\ Accepted(t)
              /\ pc[t] = "done" =>
                    /\ returned[t].kind = "str"
                    /\ returned[t].text = "ERROR: " \o fault[t]
                    /\ returned[t].rows = <<>>

\* C8, amended: an invocation asks for a connection and executes its
\* statement at most once; a failure happens to an accepted text only and
\* after it nothing is left but leaving the with block.  When the failure is
\* an Exception, no exception leaves _run and the value returned is the
\* string "ERROR: <diagnostic>", never rows; when it is not (KeyboardInterrupt,
\* SystemExit, GeneratorExit), that exception leaves _run, which returns no
\* value.  Nothing else ever leaves _run.
C8_FailureReturned ==
    \A t \in Invocations :
        /\ connects[t] <= 1
        /\ execs[t] <= 1
        /\ raised[t] # NoFault =>
              pc[t] = "done" /\ raised[t] = fault[t] /\ fault[t] \in Interrupts
        /\ fault[t] # NoFault =>
              /\ pc[t] \in {"exit", "done"}
              /\ Accepted(t)
              /\ (pc[t] = "done" /\ fault[t] \in Diagnostics) =>
                    /\ raised[t] = NoFault
                    /\ returned[t].kind = "str"
                    /\ returned[t].text = "ERROR: " \o fault[t]
                    /\ returned[t].rows = <<>>
              /\ (pc[t] = "done" /\ fault[t] \in Interrupts) =>
                    /\ raised[t] = fault[t]
                    /\ returned[t] = NoValue

\* fetchall failed with an Exception on a statement that had rows: an error
\* string came back
C8_Witness ==
    \E t \in Invocations :
        /\ pc[t] = "done"
        /\ fault[t] \in Diagnostics
        /\ execs[t] = 1
        /\ result[t].rows # <<>>
        /\ returned[t].kind = "str"
        /\ raised[t] = NoFault

(***************************************************************************)
(* C9                                                                      *)
(***************************************************************************)
\* C9 as claimed: a candidate that, trimmed, ends in two or more ';' keeps a
\* ';' after normalization and, unless the write-operation rule has rejected
\* it, is rejected for multiple statements.
C9_Original ==
    \A t \in Invocations :
        (/\ Decided(t)
         /\ TrailingTerminators(sql[t]) >= 2
         /\ returned[t] # StrValue("ERROR: write operations are not allowed.")) =>
            returned[t] = StrValue("ERROR: multiple statements are not allowed.")

\* C9, amended: normalization strips every trailing ';' of the trimmed text,
\* however many; the multiple-statement rejection is returned only for a ';'
\* that further text follows, and nothing handed to execution ends in ';'.
C9_AllTrailingStripped ==
    \A t \in Invocations :
        Decided(t) =>
            LET u == Strip(sql[t])
                n == SubSeq(u, 1, Len(u) - TrailingTerminators(sql[t]))
            IN  /\ s[t] \in {n, n \o DefaultLimit}
                /\ returned[t] = StrValue("ERROR: multiple statements are not allowed.")
                      => InteriorTerminator(sql[t])
                /\ execs[t] > 0 =>
                      /\ s[t] \in executed
                      /\ s[t][Len(s[t])] # Semicolon

\* "SELECT;;"-like: two trailing ';', accepted and executed
C9_Witness ==
    \E t \in Invocations :
        /\ TrailingTerminators(sql[t]) >= 2
        /\ execs[t] = 1
        /\ s[t] \in executed

(***************************************************************************)
(* C10                                                                     *)
(***************************************************************************)
\* C10 as claimed: every text handed to conn.exec_driver_sql starts with the
\* keyword SELECT, holds no ';', holds no write keyword as a whole word, and
\* holds a LIMIT <integer> clause or an aggregate/grouping construct.
C10_ExecutedTexts ==
    \A x \in executed :
        /\ StartsWithSelectWord(x)
        /\ \A i \in 1..Len(x) : x[i] # Semicolon
        /\ ~HasWriteWord(x)
        /\ HasLimitClause(x) \/ HasAggregateConstruct(x)

====
